---------------------------- MODULE Spec2Model ----------------------------
(***************************************************************************)
(* A model of @wemt/vue3-auto-router: the Vite plugin that turns a         *)
(* directory of page components into a routing table.                      *)
(*                                                                         *)
(* The specifications of this module share its variables:                  *)
(*   Spec       the plugin's reconciliation loop (src/src/index.ts):       *)
(*              lifecycle hooks, watcher events, the debounce timer, the   *)
(*              50 ms follow-up timer and the passes they start;           *)
(*   SpecLive   Spec with timers that elapse and passes that complete;     *)
(*   SpecGen    RouteGenerator.generateRoutes (src/unnamed/part_003) and   *)
(*              the path helpers of src/src/utils.ts, applied to bounded   *)
(*              configurations and scan results;                           *)
(*   SpecRerun  two runs of generateRoutes over one file set;              *)
(*   SpecWrite  RouteGenerator.writeFiles and writeFileIfChanged           *)
(*              (src/unnamed/part_003) against a disk;                     *)
(*   SpecMap, SpecScan, SpecMerge                                          *)
(*              one call of createRouteFromFile, scanFiles, mergeOptions.  *)
(*                                                                         *)
(* JavaScript runs one macrotask at a time: a handler runs from its start  *)
(* to its first await on real I/O without interleaving, and promise        *)
(* continuations (microtasks) run before the next timer or watcher event.  *)
(* The only await on real I/O inside a pass is the directory scan (glob)   *)
(* at the start of writeFiles; everything after it is synchronous.         *)
(***************************************************************************)
EXTENDS Integers, Sequences, FiniteSets, TLC

(***************************************************************************)
(* Bounds of the model.                                                    *)
(***************************************************************************)
\* Watcher events delivered in one behaviour of Spec.
MaxEvents == 4
\* Files under the scan root in one behaviour of SpecGen.
MaxFiles == 3
\* Milliseconds the clock of SpecWrite advances.
MaxClock == 1
\* Versions of the scanned file set in SpecWrite, counted from 0.
MaxVersion == 1

VARIABLES
  \* ---- the plugin closure (src/src/index.ts:10-19) ----
  hook,                 \* lifecycle position: "new" before configResolved, then "resolved"
  isInitialized,        \* index.ts:12
  server,               \* index.ts:13, TRUE once configureServer stored the dev server
  buildStarted,         \* buildStart has been called
  isGenerating,         \* index.ts:14
  pendingRegeneration,  \* index.ts:15
  timeoutId,            \* index.ts:19: 0 = no live timer, else the armed delay in ms
  timers,               \* the live debounce timers of the event loop, oldest first: their delays
  followups,            \* live 50 ms follow-up timers (index.ts:36)
  calls,                \* writeFiles calls in flight, each tagged with what started it
  \* ---- history of the loop (observations, not program state) ----
  events,               \* watcher events delivered so far
  elapsed,              \* debounce timers that elapsed during the pass in flight
  lastDone,             \* the last completed pass
  burst,                \* the current burst of events
  passLog,              \* what started each pass so far, in the order the passes began
  unserved,             \* a relevant event occurred and no pass has begun since
  lastEvent,            \* the last watcher event and what its handler did
  \* ---- one RouteGenerator.generateRoutes run (SpecGen) ----
  cfg,                  \* this.options, the merged configuration
  fsFiles,              \* the files under the scan root
  scanned,              \* what scanFiles returned, in its order
  routes,               \* the descriptors generateRoutes returned
  warnings,             \* the [Route Conflict] warnings it logged
  genDone,              \* generateRoutes has returned
  \* ---- RouteGenerator.writeFiles and the disk (SpecWrite) ----
  disk,                 \* the output files and their .tmp siblings
  lastGeneratedHash,    \* part_003: this.lastGeneratedHash, <<>> for ""
  wpc,                  \* where writeFiles is: idle, scanning, or the path it is about to write
  pass,                 \* the texts and the hash of the pass under way
  fsVersion,            \* the version of the scanned file set
  now,                  \* the clock, in ms
  \* ---- history of writeFiles (observations, not program state) ----
  prev,                 \* the targets as the pass under way found them
  writes,               \* file-system writes of the pass under way
  ioFailed,             \* a file-system call of the pass under way threw
  repeat,               \* the pass under way follows a successful pass, nothing changed between
  lastPass,             \* the last pass that ended
  prevOk,               \* fsVersion of the last pass if it succeeded and the outputs were left alone since, else -1
  \* ---- one call of a pure helper (SpecMap, SpecScan, SpecMerge) ----
  fnIn,                 \* the arguments of the call
  fnOut,                \* what the call returned
  fnDone                \* the call has returned

loopVars == <<hook, isInitialized, server, buildStarted, isGenerating,
              pendingRegeneration, timeoutId, timers, followups, calls,
              events, elapsed, lastDone, burst, passLog, unserved,
              lastEvent>>

genVars == <<cfg, fsFiles, scanned, routes, warnings, genDone>>

writeVars == <<disk, lastGeneratedHash, wpc, pass, fsVersion, now, prev,
               writes, ioFailed, repeat, lastPass, prevOk>>

fnVars == <<fnIn, fnOut, fnDone>>

vars == <<loopVars, genVars, writeVars, fnVars>>

(***************************************************************************)
(* Program constants.                                                      *)
(***************************************************************************)
\* generateRoutesDebounced's default delay, used by add and unlink.
DefaultDelay == 100
\* The delay the change handler passes.
ChangeDelay == 300
\* The delay of the "Pending regeneration" follow-up timer.
FollowupDelay == 50

SUPPORTED_EXTENSIONS == {".vue", ".ts", ".js"}

(***************************************************************************)
(* Strings.  A string is a sequence of one-character strings, so that      *)
(* suffix stripping, the kebab-case transform, joins and replacements     *)
(* are computed character by character as the code computes them.          *)
(***************************************************************************)
UpperChars == <<"A","B","C","D","E","F","G","H","I","J","K","L","M",
                "N","O","P","Q","R","S","T","U","V","W","X","Y","Z">>
LowerChars == <<"a","b","c","d","e","f","g","h","i","j","k","l","m",
                "n","o","p","q","r","s","t","u","v","w","x","y","z">>

IsUpper(c) == \E i \in 1..Len(UpperChars) : UpperChars[i] = c
IsLower(c) == \E i \in 1..Len(LowerChars) : LowerChars[i] = c

\* String.prototype.toLowerCase on one character.
ToLower(c) ==
  IF IsUpper(c)
    THEN LowerChars[CHOOSE i \in 1..Len(UpperChars) : UpperChars[i] = c]
    ELSE c

\* String.prototype.toUpperCase on one character.
ToUpper(c) ==
  IF IsLower(c)
    THEN UpperChars[CHOOSE i \in 1..Len(LowerChars) : LowerChars[i] = c]
    ELSE c

RECURSIVE Flatten(_)
\* The concatenation of a sequence of strings.
Flatten(ss) == IF ss = <<>> THEN <<>> ELSE Head(ss) \o Flatten(Tail(ss))

RECURSIVE Join(_, _)
\* Array.prototype.join.
Join(ss, sep) ==
  IF ss = <<>> THEN <<>>
  ELSE IF Len(ss) = 1 THEN ss[1]
  ELSE ss[1] \o sep \o Join(Tail(ss), sep)

RECURSIVE SplitFrom(_, _, _)
SplitFrom(s, sepChar, cur) ==
  IF s = <<>> THEN <<cur>>
  ELSE IF Head(s) = sepChar THEN <<cur>> \o SplitFrom(Tail(s), sepChar, <<>>)
  ELSE SplitFrom(Tail(s), sepChar, Append(cur, Head(s)))

\* String.prototype.split on a one-character separator.
Split(s, sepChar) == SplitFrom(s, sepChar, <<>>)

\* str.replace(/x/g, y) for one-character x and y.
ReplaceChar(s, x, y) == [i \in 1..Len(s) |-> IF s[i] = x THEN y ELSE s[i]]

\* String.prototype.endsWith.
EndsWith(s, suffix) ==
  /\ Len(suffix) <= Len(s)
  /\ SubSeq(s, Len(s) - Len(suffix) + 1, Len(s)) = suffix

\* Array.prototype.filter(Boolean) on strings: the non-empty ones.
FilterNonEmpty(ss) == SelectSeq(ss, LAMBDA x : x # <<>>)

(***************************************************************************)
(* The path helpers of src/src/utils.ts.  A scanned file is kept as its    *)
(* path relative to the scan root: the directory segments, the file stem   *)
(* and the extension.  The generator's root and process.cwd() are the same *)
(* directory, as the tests set it up.                                      *)
(***************************************************************************)
toKebabCase_noDash(str) == [i \in 1..Len(str) |-> ToLower(str[i])]

\* str.replace(/([A-Z])/g, "-$1").toLowerCase().replace(/^-/, "")
toKebabCase(str) ==
  LET dashed == Flatten([i \in 1..Len(str) |->
                   IF IsUpper(str[i]) THEN <<"-", str[i]>> ELSE <<str[i]>>])
      lowered == [i \in 1..Len(dashed) |-> ToLower(dashed[i])]
  IN IF lowered # <<>> /\ lowered[1] = "-" THEN Tail(lowered) ELSE lowered

RECURSIVE StripFirstSuffix(_, _)
\* The loop over naming.filenameSuffixes: the first suffix that is non-empty
\* and ends the segment is removed, and the loop breaks.
StripFirstSuffix(segment, suffixes) ==
  IF suffixes = <<>> THEN segment
  ELSE IF Head(suffixes) # <<>> /\ EndsWith(segment, Head(suffixes))
    THEN SubSeq(segment, 1, Len(segment) - Len(Head(suffixes)))
  ELSE StripFirstSuffix(segment, Tail(suffixes))

\* The case transform first, the suffixes after it.
processPathSegment_kebabFirst(segment, naming) ==
  StripFirstSuffix(IF naming.kebabCase THEN toKebabCase(segment) ELSE segment,
                   naming.filenameSuffixes)

processPathSegment(segment, naming) ==
  LET processed == StripFirstSuffix(segment, naming.filenameSuffixes)
  IN IF naming.kebabCase THEN toKebabCase(processed) ELSE processed

\* The relative path with the extension removed, split on "/", empty
\* segments dropped, every segment processed, joined by "/".
generateRoutePath(file, options) ==
  LET pathSegments == FilterNonEmpty(Append(file.dir, file.stem))
  IN Join([i \in 1..Len(pathSegments) |->
             processPathSegment(pathSegments[i], options.naming)], <<"/">>)

generateRouteName(file, options) ==
  ReplaceChar(generateRoutePath(file, options), "/", "-")

generatePageTitle(file, options) ==
  LET segs == Split(generateRoutePath(file, options), "/")
  IN Join([i \in 1..Len(segs) |->
             IF segs[i] = <<>> THEN <<>>
             ELSE <<ToUpper(segs[i][1])>> \o Tail(segs[i])], <<" ">>)

\* generateImportStatement: the import expression names the file.
generateImportStatement(file, options) == [dir |-> file.dir, stem |-> file.stem, ext |-> file.ext]

\* parseVueFileRouteMeta: the metadata block read from the file's text, or
\* the empty record (the code's null) when there is none.
parseVueFileRouteMeta(file) == file.meta

\* scanFiles: the glob over *.{vue,ts,js} minus the ignored directories,
\* filtered by the configured extensions.
scanFiles(files, options) ==
  { f \in files :
      /\ f.ext \in SUPPORTED_EXTENSIONS
      /\ \A i \in 1..Len(f.dir) : f.dir[i] \notin options.exclude
      /\ f.ext \in options.extensions }

\* isHomePageFile: the file stem is one of the configured home file stems,
\* compared exactly.
isHomePageFile(file, options) ==
  \E i \in 1..Len(options.homeRoute.files) : options.homeRoute.files[i] = file.stem

\* { ...a, ...b }
Spread(a, b) ==
  [k \in DOMAIN a \cup DOMAIN b |-> IF k \in DOMAIN b THEN b[k] ELSE a[k]]

NoMeta == [k \in {} |-> TRUE]

(***************************************************************************)
(* RouteGenerator (src/unnamed/part_003).                                  *)
(***************************************************************************)
\* The configured not-found component "" (unset): path.resolve gives the root.
NoComponent == [dir |-> <<>>, stem |-> <<>>, ext |-> ""]

\* No file is taken for the not-found component.
isNotFoundComponent_never(file, options) == FALSE

isNotFoundComponent(file, options) ==
  IF ~options.notFound.enabled \/ options.notFound.component = NoComponent
    THEN FALSE
    ELSE generateImportStatement(file, options) = options.notFound.component

\* The global default metadata spread last.
FileMeta_globalLast(file, options) ==
  LET vueRouteMeta == parseVueFileRouteMeta(file)
      title == IF "title" \in DOMAIN vueRouteMeta /\ vueRouteMeta.title # <<>>
                 THEN vueRouteMeta.title ELSE generatePageTitle(file, options)
  IN Spread(Spread([title |-> title], vueRouteMeta), options.meta)

\* The meta of a file's descriptor.
FileMeta(file, options) ==
  LET vueRouteMeta == parseVueFileRouteMeta(file)
      pageTitle == generatePageTitle(file, options)
      title == IF "title" \in DOMAIN vueRouteMeta /\ vueRouteMeta.title # <<>>
                 THEN vueRouteMeta.title ELSE pageTitle
  IN Spread(Spread([title |-> title], options.meta), vueRouteMeta)

\* Every home page file is bound to the configured home path, whatever its
\* directory.
createRouteFromFile_homeAnywhere(file, options) ==
  IF isHomePageFile(file, options)
    THEN [path |-> IF options.homeRoute.path # <<>>
                     THEN options.homeRoute.path ELSE <<"/">>,
          name |-> options.homeRoute.name,
          component |-> generateImportStatement(file, options),
          meta |-> FileMeta(file, options)]
    ELSE [path |-> <<"/">> \o generateRoutePath(file, options),
          name |-> generateRouteName(file, options),
          component |-> generateImportStatement(file, options),
          meta |-> FileMeta(file, options)]

createRouteFromFile(file, options) ==
  LET routePath == generateRoutePath(file, options)
      routeName == generateRouteName(file, options)
      importStatement == generateImportStatement(file, options)
      dirPath == Join(file.dir, <<"/">>)
      isHomePageFile_ == isHomePageFile(file, options)
      isRootHomePage == (dirPath = <<>> \/ dirPath = <<".">>) /\ isHomePageFile_
  IN IF isRootHomePage
       THEN [path |-> IF options.homeRoute.path # <<>>
                        THEN options.homeRoute.path ELSE <<"/">>,
             name |-> options.homeRoute.name,
             component |-> importStatement,
             meta |-> FileMeta(file, options)]
     ELSE IF isHomePageFile_
       THEN [path |-> <<"/">> \o dirPath,
             name |-> ReplaceChar(dirPath, "/", "-"),
             component |-> importStatement,
             meta |-> FileMeta(file, options)]
     ELSE [path |-> <<"/">> \o routePath,
           name |-> routeName,
           component |-> importStatement,
           meta |-> FileMeta(file, options)]

createNotFoundRoute(options) ==
  [path |-> options.notFound.path,
   name |-> options.notFound.name,
   component |-> options.notFound.component,
   meta |-> Spread([title |-> <<"4","0","4"," ","N","o","t"," ","F","o","u","n","d">>,
                    hidden |-> TRUE], options.meta)]

\* pathMap.has(path): some accepted file claimed the path.
PathMapHas(pathMap, path) == \E i \in 1..Len(pathMap) : pathMap[i].path = path

\* pathMap.get(path)
PathMapGet(pathMap, path) ==
  pathMap[CHOOSE i \in 1..Len(pathMap) : pathMap[i].path = path].file

RECURSIVE RouteLoop_lastWins(_, _, _)
RouteLoop_lastWins(files, options, acc) ==
  IF files = <<>> THEN acc
  ELSE LET file == Head(files)
           route == createRouteFromFile(file, options)
       IN IF isNotFoundComponent(file, options)
            THEN RouteLoop_lastWins(Tail(files), options, acc)
          ELSE RouteLoop_lastWins(Tail(files), options,
                 [routes |-> Append(SelectSeq(acc.routes, LAMBDA r : r.path # route.path), route),
                  pathMap |-> Append(acc.pathMap, [path |-> route.path, file |-> file]),
                  warnings |-> acc.warnings])

RECURSIVE RouteLoop(_, _, _)
\* The loop over the scanned files: the not-found component is skipped, a
\* route whose path is already in pathMap is reported and skipped, every
\* other route claims its path and is pushed.
RouteLoop(files, options, acc) ==
  IF files = <<>> THEN acc
  ELSE LET file == Head(files)
           route == createRouteFromFile(file, options)
       IN IF isNotFoundComponent(file, options)
            THEN RouteLoop(Tail(files), options, acc)
          ELSE IF PathMapHas(acc.pathMap, route.path)
            THEN RouteLoop(Tail(files), options,
                   [acc EXCEPT !.warnings = Append(@,
                      [path |-> route.path,
                       existingFile |-> PathMapGet(acc.pathMap, route.path),
                       file |-> file])])
          ELSE RouteLoop(Tail(files), options,
                 [routes |-> Append(acc.routes, route),
                  pathMap |-> Append(acc.pathMap, [path |-> route.path, file |-> file]),
                  warnings |-> acc.warnings])

\* generateRoutes on the files scanFiles returned: the file routes, then the
\* not-found route when the rule is enabled.
GenerateRoutesOf(files, options) ==
  LET looped == RouteLoop(files, options,
                          [routes |-> <<>>, pathMap |-> <<>>, warnings |-> <<>>])
  IN [routes |-> IF options.notFound.enabled
                   THEN Append(looped.routes, createNotFoundRoute(options))
                   ELSE looped.routes,
      warnings |-> looped.warnings]

(***************************************************************************)
(* The inputs of SpecGen: file names, configurations and scanned files.    *)
(***************************************************************************)
S_index == <<"i","n","d","e","x">>
S_home == <<"h","o","m","e">>
S_user == <<"u","s","e","r">>
S_Dup == <<"D","u","p">>
S_dup == <<"d","u","p">>
S_404 == <<"4","0","4">>
S_notFound == <<"n","o","t","-","f","o","u","n","d">>
S_components == <<"c","o","m","p","o","n","e","n","t","s">>
\* "/:pathMatch(.*)*", the default catch-all path
P_catchAll == <<"/",":","p","a","t","h","M","a","t","c","h","(",".","*",")","*">>

File(dir, stem, meta) == [dir |-> dir, stem |-> stem, ext |-> ".vue", meta |-> meta]

\* index.vue, user/index.vue, user.vue, Dup.vue, dup.vue and 404.vue.
FileUniverse ==
  { File(<<>>, S_index, NoMeta),
    File(<<S_user>>, S_index, NoMeta),
    File(<<>>, S_user, NoMeta),
    File(<<>>, S_Dup, NoMeta),
    File(<<>>, S_dup, [title |-> <<"D">>]),
    File(<<>>, S_404, NoMeta) }

\* src/views/404.vue, the default not-found component, and a component
\* outside the scan root.
C_404 == [dir |-> <<>>, stem |-> S_404, ext |-> ".vue"]
C_outside == [dir |-> <<"..">>, stem |-> <<"N","F">>, ext |-> ".vue"]

NotFoundRules ==
  { [enabled |-> TRUE,  path |-> P_catchAll, name |-> S_notFound, component |-> C_404],
    [enabled |-> FALSE, path |-> P_catchAll, name |-> S_notFound, component |-> C_404],
    [enabled |-> TRUE,  path |-> P_catchAll, name |-> S_notFound, component |-> NoComponent],
    [enabled |-> TRUE,  path |-> <<"/">> \o S_404, name |-> S_notFound, component |-> C_outside] }

HomePaths == { <<"/">>, <<"/">> \o S_home, <<>> }

Options(kebab, homePath, notFound) ==
  [extensions |-> {".vue"},
   exclude |-> {S_components},
   meta |-> NoMeta,
   naming |-> [kebabCase |-> kebab, filenameSuffixes |-> <<>>],
   homeRoute |-> [path |-> homePath, name |-> S_home, files |-> <<S_index, S_home>>],
   notFound |-> notFound]

\* defaultOptions of src/src/utils.ts
defaultOptions == Options(FALSE, <<"/">>, 
  [enabled |-> TRUE, path |-> P_catchAll, name |-> S_notFound, component |-> C_404])

Configs ==
  { Options(kebab, homePath, notFound) :
      kebab \in BOOLEAN, homePath \in HomePaths, notFound \in NotFoundRules }

\* The orders in which a scan may return a set of files.
Orderings(S) ==
  { s \in [1..Cardinality(S) -> S] : \A i, j \in 1..Cardinality(S) : i # j => s[i] # s[j] }

\* No helper call is under consideration.
FnIdle ==
  /\ fnIn = <<>>
  /\ fnOut = <<>>
  /\ fnDone = FALSE

GenIdle ==
  /\ cfg = defaultOptions
  /\ fsFiles = {}
  /\ scanned = <<>>
  /\ routes = <<>>
  /\ warnings = <<>>
  /\ genDone = FALSE

\* The files a watcher event may name: where the path lies (inside the scan
\* directory src/views, in a sibling whose name starts with the scan
\* directory's, as src/views-old, or elsewhere), its directories below that
\* place and its extension.
EventFiles ==
  { [place |-> "inside",  dir |-> <<>>,                     ext |-> ".vue"],
    [place |-> "inside",  dir |-> <<S_user>>,               ext |-> ".vue"],
    [place |-> "inside",  dir |-> <<>>,                     ext |-> ".ts"],
    [place |-> "inside",  dir |-> <<>>,                     ext |-> ".css"],
    [place |-> "inside",  dir |-> <<S_components>>,         ext |-> ".vue"],
    [place |-> "inside",  dir |-> <<S_user, S_components>>, ext |-> ".vue"],
    [place |-> "sibling", dir |-> <<>>,                     ext |-> ".vue"],
    [place |-> "outside", dir |-> <<>>,                     ext |-> ".vue"] }

NoEvent == [seen |-> FALSE, kind |-> "", file |-> <<>>, armed |-> FALSE,
            cancelled |-> FALSE]

EventKinds == {"add", "unlink", "change"}

NoPass == [owner |-> "none", elapsed |-> 0, scheduled |-> 0, ok |-> TRUE,
           rejected |-> FALSE]
NoBurst == [open |-> FALSE, passes |-> 0]

(***************************************************************************)
(* The reconciliation loop.                                                *)
(***************************************************************************)
LoopIdle ==
  /\ hook = "new"
  /\ isInitialized = FALSE
  /\ server = FALSE
  /\ buildStarted = FALSE
  /\ isGenerating = FALSE
  /\ pendingRegeneration = FALSE
  /\ timeoutId = 0
  /\ timers = <<>>
  /\ followups = 0
  /\ calls = <<>>
  /\ events = 0
  /\ elapsed = 0
  /\ lastDone = NoPass
  /\ burst = NoBurst
  /\ passLog = <<>>
  /\ unserved = FALSE
  /\ lastEvent = NoEvent

\* No pass in flight and no timer live.
Quiescent == ~isGenerating /\ calls = <<>> /\ timeoutId = 0 /\ followups = 0

\* path.relative(scanDirPath, normalizedFile): the directories and the file
\* name joined by "/", behind "../views-old/" for a sibling of the scan
\* directory.
EventRelativePath(file) ==
  LET below == Join(Append(file.dir, <<"f">>), <<"/">>)
  IN IF file.place = "sibling"
       THEN <<".", ".", "/">> \o <<"v","i","e","w","s","-","o","l","d","/">> \o below
       ELSE below

\* String.prototype.includes.
Includes(s, part) ==
  \E i \in 1..(Len(s) - Len(part) + 1) : SubSeq(s, i, i + Len(part) - 1) = part

\* shouldRegenerateRoutes: the path starts with the scan directory's path,
\* the extension is one of SUPPORTED_EXTENSIONS, and the relative path
\* includes no exclusion pattern with its asterisks removed ("**/components/**"
\* becomes "/components/").
shouldRegenerateRoutes(file) ==
  /\ file.place \in {"inside", "sibling"}
  /\ file.ext \in SUPPORTED_EXTENSIONS
  /\ ~\E x \in cfg.exclude : Includes(EventRelativePath(file), <<"/">> \o x \o <<"/">>)

generateRoutes_noGuard(trigger) ==
  /\ isGenerating' = TRUE
  /\ calls' = Append(calls, trigger)
  /\ elapsed' = 0
  /\ passLog' = Append(passLog, trigger)
  /\ unserved' = FALSE

\* generateRoutes up to its await of generator.writeFiles(): returns at once
\* while a pass is in flight, else raises the flag and starts the pass.
generateRoutes(trigger) ==
  IF isGenerating
    THEN UNCHANGED <<isGenerating, calls, elapsed, passLog, unserved>>
    ELSE /\ isGenerating' = TRUE
         /\ calls' = Append(calls, trigger)
         /\ elapsed' = 0
         /\ passLog' = Append(passLog, trigger)
         /\ unserved' = FALSE

\* The burst after a step that may have started a pass.
BurstCounted ==
  IF burst.open /\ Len(calls') > Len(calls)
    THEN [burst EXCEPT !.passes = @ + 1]
    ELSE burst

configResolved(ok) ==
  /\ UNCHANGED <<genVars, writeVars, fnVars>>
  /\ hook = "new"
  /\ hook' = "resolved"
  /\ isInitialized' = ok
  /\ UNCHANGED <<server, buildStarted, isGenerating, pendingRegeneration,
                 timeoutId, timers, followups, calls, events, elapsed, lastDone,
                 burst,
                 passLog, unserved, lastEvent>>

configureServer ==
  /\ UNCHANGED <<genVars, writeVars, fnVars>>
  /\ hook = "resolved"
  /\ ~server
  /\ isInitialized
  /\ server' = TRUE
  /\ UNCHANGED <<hook, isInitialized, buildStarted, isGenerating,
                 pendingRegeneration, timeoutId, timers, followups, calls, events,
                 elapsed, lastDone, burst, passLog, unserved, lastEvent>>

buildStart ==
  /\ UNCHANGED <<genVars, writeVars, fnVars>>
  /\ hook = "resolved"
  /\ ~buildStarted
  /\ buildStarted' = TRUE
  /\ IF isInitialized
       THEN generateRoutes("build")
       ELSE UNCHANGED <<isGenerating, calls, elapsed, passLog, unserved>>
  \* a pass started by buildStart is not a pass of the burst
  /\ burst' = NoBurst
  /\ UNCHANGED <<hook, isInitialized, server, pendingRegeneration, timeoutId, timers,
                 followups, events, lastDone, lastEvent>>

\* The timer timeoutId refers to is left to run.
clearTimeout_none(live) == live

\* if (timeoutId) clearTimeout(timeoutId): the timer armed last, when it is
\* still live, is removed from the event loop.
clearTimeout(live) ==
  IF timeoutId # 0 THEN SubSeq(live, 1, Len(live) - 1) ELSE live

\* generateRoutesDebounced: cancel the live timer, arm a new one.
generateRoutesDebounced(delay) ==
  /\ timers' = Append(clearTimeout(timers), delay)
  /\ timeoutId' = delay

RemoveAt(s, i) == SubSeq(s, 1, i - 1) \o SubSeq(s, i + 1, Len(s))

\* One watcher event: handleFileChange for add and unlink, the change handler
\* with the longer delay.
WatcherEvent(kind, file) ==
  /\ UNCHANGED <<genVars, writeVars, fnVars>>
  /\ server
  /\ events < MaxEvents
  /\ events' = events + 1
  /\ IF shouldRegenerateRoutes(file)
       THEN /\ generateRoutesDebounced(IF kind = "change" THEN ChangeDelay ELSE DefaultDelay)
            /\ burst' = IF timeoutId # 0 THEN burst
                        ELSE IF Quiescent THEN [open |-> TRUE, passes |-> 0]
                        ELSE NoBurst
       ELSE UNCHANGED <<timeoutId, timers, burst>>
  /\ lastEvent' = [seen |-> TRUE, kind |-> kind, file |-> file,
                   armed |-> shouldRegenerateRoutes(file),
                   cancelled |-> shouldRegenerateRoutes(file) /\ timeoutId # 0]
  /\ UNCHANGED <<hook, isInitialized, server, buildStarted, isGenerating,
                 pendingRegeneration, followups, calls, elapsed, lastDone,
                 passLog>>
  /\ unserved' = (unserved \/ shouldRegenerateRoutes(file))

\* The debounce timer's callback up to its await of generateRoutes.
DebounceTimerFires ==
  /\ UNCHANGED <<genVars, writeVars, fnVars>>
  /\ \E i \in 1..Len(timers) :
       /\ timers' = RemoveAt(timers, i)
       /\ timeoutId' = IF i = Len(timers) THEN 0 ELSE timeoutId
  /\ IF isGenerating
       THEN /\ pendingRegeneration' = TRUE
            /\ elapsed' = elapsed + 1
            /\ UNCHANGED <<isGenerating, calls, passLog, unserved>>
       ELSE /\ generateRoutes("debounce")
            /\ UNCHANGED pendingRegeneration
  /\ burst' = BurstCounted
  /\ UNCHANGED <<hook, isInitialized, server, buildStarted, followups, events,
                 lastDone, lastEvent>>

\* The follow-up timer's callback: generateRoutes("Pending regeneration").
FollowupTimerFires ==
  /\ UNCHANGED <<genVars, writeVars, fnVars>>
  /\ followups > 0
  /\ followups' = followups - 1
  /\ generateRoutes("followup")
  /\ burst' = BurstCounted
  /\ UNCHANGED <<hook, isInitialized, server, buildStarted, pendingRegeneration,
                 timeoutId, timers, events, lastDone, lastEvent>>

\* try/finally without the catch clause: the error leaves generateRoutes.
generateRoutesSettles_noCatch(ok) == [rejected |-> ~ok, isGenerating |-> FALSE]

\* generateRoutes after writeFiles settled: an error is caught and logged,
\* finally lowers the flag, and the promise generateRoutes returned resolves.
generateRoutesSettles(ok) == [rejected |-> FALSE, isGenerating |-> FALSE]

\* The writeFiles call i settles (ok: it resolved, else it threw): the rest of
\* generateRoutes (catch, finally) and, for a pass the debounce callback
\* started, the callback's continuation, which run as microtasks.
PassCompletes(i, ok) ==
  /\ UNCHANGED <<genVars, writeVars, fnVars>>
  /\ i \in 1..Len(calls)
  /\ calls' = RemoveAt(calls, i)
  /\ isGenerating' = generateRoutesSettles(ok).isGenerating
  /\ IF calls[i] = "debounce" /\ pendingRegeneration
       THEN /\ pendingRegeneration' = FALSE
            /\ followups' = followups + 1
       ELSE UNCHANGED <<pendingRegeneration, followups>>
  /\ lastDone' = [owner |-> calls[i], elapsed |-> elapsed,
                  scheduled |-> followups' - followups, ok |-> ok,
                  rejected |-> generateRoutesSettles(ok).rejected]
  /\ elapsed' = 0
  /\ UNCHANGED <<hook, isInitialized, server, buildStarted, timeoutId, timers, events,
                 burst, passLog, unserved, lastEvent>>

NextLoop ==
  \/ \E ok \in BOOLEAN : configResolved(ok)
  \/ configureServer
  \/ buildStart
  \/ \E kind \in EventKinds, file \in EventFiles : WatcherEvent(kind, file)
  \/ DebounceTimerFires
  \/ FollowupTimerFires
  \/ \E i \in 1..Len(calls), ok \in BOOLEAN : PassCompletes(i, ok)

(***************************************************************************)
(* SpecWrite: RouteGenerator.writeFiles against a disk.                    *)
(*                                                                         *)
(* File contents are values: Absent (no file), Partial (what a failed      *)
(* write may leave), or a complete text.  The routes text is rendered by   *)
(* generateRoutesTemplate from the routes of the scanned files (here the   *)
(* version of the scanned file set) and the "Generated at" timestamp it    *)
(* embeds; the configuration is fixed, so the config and guards texts are. *)
(* The synchronous part of writeFiles is taken one file-system call at a   *)
(* time, so that every disk state another process can read is a state.     *)
(***************************************************************************)
Absent == <<"absent">>
Partial == <<"partial">>
\* What the developer makes of the guards file.
CustomGuards == <<"guards", "customized">>

Targets == {"routes", "config", "guards"}

\* `${filePath}.tmp`
tempPath_inPlace(filePath) == filePath

tempPath(filePath) ==
  CASE filePath = "routes" -> "routes.tmp"
    [] filePath = "config" -> "config.tmp"
    [] filePath = "guards" -> "guards.tmp"

DiskPaths == Targets \cup { tempPath(t) : t \in Targets }

\* generateRoutesTemplate: the routes of the scanned files and the timestamp.
generateRoutesTemplate(version, time) == <<"routes", version, time>>

generateConfigTemplate == <<"config">>

generateGuardsTemplate == <<"guards", "generated">>

\* calculateContentHash of the concatenated texts: equal for equal texts.
calculateContentHash(routesContent, configContent, guardsContent) ==
  <<routesContent, configContent, guardsContent>>

shouldWriteGuards_always(d) == TRUE

\* !fs.existsSync(guardsPath)
shouldWriteGuards(d) == d["guards"] = Absent

NoPassRecord ==
  [routes |-> <<>>, config |-> <<>>, guards |-> <<>>,
   shouldWriteGuards |-> FALSE, contentHash |-> <<>>,
   version |-> 0]

\* No pass is under way: nothing is remembered of the targets.
NoTargets == [t \in Targets |-> Absent]

NoWrittenPass == [ok |-> FALSE, repeat |-> FALSE, writes |-> 0, ioFailed |-> FALSE]

WriteIdle ==
  /\ disk = [p \in DiskPaths |-> Absent]
  /\ lastGeneratedHash = <<>>
  /\ wpc = "idle"
  /\ pass = NoPassRecord
  /\ fsVersion = 0
  /\ now = 0
  /\ prev = NoTargets
  /\ writes = 0
  /\ ioFailed = FALSE
  /\ repeat = FALSE
  /\ lastPass = NoWrittenPass
  /\ prevOk = -1

Init == LoopIdle /\ GenIdle /\ WriteIdle /\ FnIdle

Spec == Init /\ [][NextLoop]_vars

(***************************************************************************)
(* Claims about the reconciliation loop.                                   *)
(***************************************************************************)

\* C1: at most one regeneration pass is in flight at any time: no call of
\* generator.writeFiles() begins while a previous call has not yet completed,
\* whatever the interleaving of buildStart, watcher events and timers.
C1_AtMostOnePassInFlight == Len(calls) <= 1

\* C1 witness: a follow-up timer is live while a pass started by the debounce
\* timer is in flight and buildStart has already run: every way of starting a
\* pass has contended with a pass in flight.
C1_Witness_Contention ==
  /\ Len(calls) = 1
  /\ pendingRegeneration
  /\ followups > 0
  /\ buildStarted

\* C2: for every pass, however it was started, if n >= 1 debounce timers
\* elapsed while it was running then exactly one follow-up pass is scheduled
\* when it completes.
C2_ExactlyOneFollowUp ==
  lastDone.elapsed >= 1 => lastDone.scheduled = 1

\* C3: starting with no pass in flight, a burst of events in which each
\* event arrives before the timer armed by the previous one has elapsed
\* produces exactly one regeneration pass.
C3_BurstOnePass ==
  burst.open => /\ burst.passes <= 1
                /\ (Quiescent => burst.passes = 1)


\* What the claim takes for a relevant event: the path is inside the scan
\* root, its extension is a configured one, and no directory of it matches an
\* exclusion pattern.
RelevantEvent(file) ==
  /\ file.place = "inside"
  /\ file.ext \in cfg.extensions
  /\ \A i \in 1..Len(file.dir) : file.dir[i] \notin cfg.exclude

\* C16: a watcher event arms the debounce timer if and only if its path is
\* inside the scan root, its extension is one of the configured extensions
\* and it matches no exclusion pattern.
C16_RelevantEventsArmTimer ==
  lastEvent.seen => (lastEvent.armed <=> RelevantEvent(lastEvent.file))

\* The passes buildStart started so far.
BuildPasses == { k \in 1..Len(passLog) : passLog[k] = "build" }

\* C15: whenever the generator was initialized, buildStart runs exactly one
\* pass, and that pass begins before any pass caused by a watcher event.
C15_StartupPassFirst ==
  (buildStarted /\ isInitialized) => BuildPasses = {1}

\* C14: a pass whose writeFiles throws ends at the pass boundary: the
\* promise of generateRoutes, which buildStart and the timer callbacks await,
\* never rejects; the in-flight flag is down whenever no writeFiles call is
\* in flight, so also after a failed pass; and after a failed pass the next
\* debounce timer to elapse starts a new pass.
C14_FailureCaughtAtPassBoundary ==
  /\ [](~lastDone.rejected /\ (calls = <<>> => ~isGenerating))
  /\ [][(~lastDone.ok /\ calls = <<>> /\ timeoutId # 0 /\ timeoutId' = 0)
          => (calls' = <<"debounce">> /\ isGenerating')]_vars

\* C14 witness: the last pass failed and a pass started by the debounce
\* timer after it is in flight.
C14_Witness_RetryAfterFailure ==
  /\ ~lastDone.ok
  /\ ~lastDone.rejected
  /\ calls = <<"debounce">>
  /\ isGenerating

(***************************************************************************)
(* SpecGen: generateRoutes applied to every configuration of Configs and   *)
(* every scan order of at most MaxFiles files.                             *)
(***************************************************************************)
InitGen ==
  /\ LoopIdle
  /\ WriteIdle
  /\ FnIdle
  /\ cfg \in Configs
  /\ fsFiles \in { S \in SUBSET FileUniverse : Cardinality(S) <= MaxFiles }
  /\ scanned = <<>>
  /\ routes = <<>>
  /\ warnings = <<>>
  /\ genDone = FALSE

\* One call of RouteGenerator.generateRoutes: the scan, in the order glob
\* returns the files, the loop over them and the not-found route.
GenerateRoutes ==
  /\ ~genDone
  /\ \E files \in Orderings(scanFiles(fsFiles, cfg)) :
       LET result == GenerateRoutesOf(files, cfg)
       IN /\ scanned' = files
          /\ routes' = result.routes
          /\ warnings' = result.warnings
  /\ genDone' = TRUE
  /\ UNCHANGED <<cfg, fsFiles>>
  /\ UNCHANGED <<loopVars, writeVars, fnVars>>

NextGen == GenerateRoutes

SpecGen == InitGen /\ [][NextGen]_vars

(***************************************************************************)
(* Claims about generateRoutes.                                            *)
(***************************************************************************)
\* The scanned files that go through the generic mapping, in scan order.
Candidates == SelectSeq(scanned, LAMBDA f : ~isNotFoundComponent(f, cfg))

\* The route path the generic mapping derives for candidate i.
CandidatePath(i) == createRouteFromFile(Candidates[i], cfg).path

\* Candidate i is the first candidate, in scan order, with its route path.
FirstClaim(i) == \A j \in 1..(i - 1) : CandidatePath(j) # CandidatePath(i)

\* The index of the first candidate with candidate i's route path.
FirstWith(i) ==
  CHOOSE j \in 1..i : CandidatePath(j) = CandidatePath(i) /\ FirstClaim(j)

\* The index of the k-th candidate that is a first claim.
KthFirstClaim(k) ==
  CHOOSE i \in 1..Len(Candidates) :
    FirstClaim(i) /\ Cardinality({ j \in 1..i : FirstClaim(j) }) = k

\* The descriptors that come from files: the output without the not-found
\* route appended last when the rule is enabled.
FileRoutes ==
  IF cfg.notFound.enabled THEN SubSeq(routes, 1, Len(routes) - 1) ELSE routes

\* C4: the list generateRoutes returns holds no two descriptors with the
\* same route path, the home descriptor and the not-found descriptor included.
C4_UniquePaths ==
  genDone => \A i, j \in 1..Len(routes) : i # j => routes[i].path # routes[j].path

\* C8: conflict resolution is first-claim-wins in scan order: the output
\* holds, in scan order and unchanged, the descriptor of every file that is
\* the first with its route path; every later file with a claimed path is
\* dropped with a warning naming the path, the earlier file and the dropped
\* file, and the files after it are still processed.
C8_FirstClaimWins ==
  genDone =>
    LET n == Len(Candidates)
        firsts == { i \in 1..n : FirstClaim(i) }
        dropped == { i \in 1..n : ~FirstClaim(i) }
    IN /\ Len(FileRoutes) = Cardinality(firsts)
       /\ \A k \in 1..Len(FileRoutes) :
            FileRoutes[k] = createRouteFromFile(Candidates[KthFirstClaim(k)], cfg)
       /\ Len(warnings) = Cardinality(dropped)
       /\ \A i \in dropped :
            \E w \in 1..Len(warnings) :
              warnings[w] = [path |-> CandidatePath(i),
                             existingFile |-> Candidates[FirstWith(i)],
                             file |-> Candidates[i]]

\* C8 witness: a pass in which a file was dropped for a path conflict and a
\* file scanned after it was still accepted.
C8_Witness_ConflictThenAccept ==
  /\ genDone
  /\ \E i, j \in 1..Len(Candidates) : i < j /\ ~FirstClaim(i) /\ FirstClaim(j)

\* A scanned home file: its stem is one of the configured home file stems.
IsHome(f) == \E i \in 1..Len(cfg.homeRoute.files) : cfg.homeRoute.files[i] = f.stem

\* C9 as stated: a home file in the scan root binds to the configured home
\* path and home name; a home file in a subdirectory binds to "/" + the
\* directory's relative path, named by that path with "/" replaced by "-".
C9_HomeBinding_AsStated ==
  genDone =>
    \A i \in 1..Len(Candidates) :
      LET f == Candidates[i]
          r == createRouteFromFile(f, cfg)
      IN IsHome(f) =>
           IF f.dir = <<>>
             THEN r.path = cfg.homeRoute.path /\ r.name = cfg.homeRoute.name
             ELSE /\ r.path = <<"/">> \o Join(f.dir, <<"/">>)
                  /\ r.name = Join(f.dir, <<"-">>)

\* C9 amended: as stated, except that a home file in the scan root binds to
\* "/" when the configured home path is empty.  Every accepted home file's
\* descriptor in the output carries that binding.
C9_HomeBinding ==
  genDone =>
    /\ \A i \in 1..Len(Candidates) :
         LET f == Candidates[i]
             r == createRouteFromFile(f, cfg)
         IN IsHome(f) =>
              IF f.dir = <<>>
                THEN /\ r.path = IF cfg.homeRoute.path = <<>> THEN <<"/">>
                                 ELSE cfg.homeRoute.path
                     /\ r.name = cfg.homeRoute.name
                ELSE /\ r.path = <<"/">> \o Join(f.dir, <<"/">>)
                     /\ r.name = Join(f.dir, <<"-">>)
    /\ \A k \in 1..Len(FileRoutes) :
         FileRoutes[k] = createRouteFromFile(Candidates[KthFirstClaim(k)], cfg)

\* C9 witness: index.vue and user/index.vue were scanned with the default
\* home path, and the output holds a descriptor with path "/" and one with
\* path "/user".
C9_Witness_RootAndSubdirHome ==
  /\ genDone
  /\ cfg.homeRoute.path = <<"/">>
  /\ \E i, j \in 1..Len(routes) :
       /\ routes[i].path = <<"/">>
       /\ routes[i].component = [dir |-> <<>>, stem |-> S_index, ext |-> ".vue"]
       /\ routes[j].path = <<"/">> \o S_user
       /\ routes[j].component = [dir |-> <<S_user>>, stem |-> S_index, ext |-> ".vue"]

\* C10: with the not-found rule enabled, the configured not-found component
\* produces no descriptor through the generic mapping and the output ends
\* with exactly one synthetic descriptor carrying the configured not-found
\* path and name; with the rule disabled every descriptor comes from a
\* scanned file and none is appended.
C10_NotFoundRule ==
  genDone =>
    IF cfg.notFound.enabled
      THEN /\ Len(routes) >= 1
           /\ routes[Len(routes)].path = cfg.notFound.path
           /\ routes[Len(routes)].name = cfg.notFound.name
           /\ routes[Len(routes)].component = cfg.notFound.component
           /\ \A i \in 1..(Len(routes) - 1) :
                /\ routes[i].component # cfg.notFound.component
                /\ \E k \in 1..Len(scanned) :
                     /\ routes[i].component = generateImportStatement(scanned[k], cfg)
                     /\ routes[i] = createRouteFromFile(scanned[k], cfg)
      ELSE /\ Len(routes) <= Len(scanned)
           /\ \A i \in 1..Len(routes) :
                \E k \in 1..Len(scanned) :
                  /\ routes[i].component = generateImportStatement(scanned[k], cfg)
                  /\ routes[i] = createRouteFromFile(scanned[k], cfg)

\* C10 witness: the rule is enabled, the configured not-found component was
\* among the scanned files, and other files were scanned with it.
C10_Witness_ComponentScanned ==
  /\ genDone
  /\ cfg.notFound.enabled
  /\ Len(scanned) >= 2
  /\ \E k \in 1..Len(scanned) :
       generateImportStatement(scanned[k], cfg) = cfg.notFound.component

\* The developer may already have a guards file when the plugin first runs.
InitWrite ==
  /\ LoopIdle
  /\ GenIdle
  /\ FnIdle
  /\ disk \in { [[p \in DiskPaths |-> Absent] EXCEPT !["guards"] = g] :
                  g \in {Absent, CustomGuards} }
  /\ lastGeneratedHash = <<>>
  /\ wpc = "idle"
  /\ pass = NoPassRecord
  /\ fsVersion = 0
  /\ now = 0
  /\ prev = NoTargets
  /\ writes = 0
  /\ ioFailed = FALSE
  /\ repeat = FALSE
  /\ lastPass = NoWrittenPass
  /\ prevOk = -1

WriteFrame == UNCHANGED <<loopVars, genVars, fnVars>>

\* The text writeFiles holds for a target.
ContentFor(t) == pass[t]

\* The pass ends after w file-system writes: it returned (ok) or threw.
EndPass(ok, w, failed) ==
  /\ wpc' = "idle"
  /\ lastPass' = [ok |-> ok, repeat |-> repeat, writes |-> w, ioFailed |-> failed]
  /\ prevOk' = IF ok THEN pass.version ELSE -1
  /\ pass' = NoPassRecord
  /\ prev' = NoTargets
  /\ writes' = 0
  /\ ioFailed' = FALSE
  /\ repeat' = FALSE

\* lastGeneratedHash is assigned as soon as the first target is written.
Advance_hashFirst(t, w) ==
  IF t = "routes" \/ (t = "config" /\ pass.shouldWriteGuards)
    THEN /\ wpc' = IF t = "routes" THEN "config" ELSE "guards"
         /\ writes' = w
         /\ lastGeneratedHash' = pass.contentHash
         /\ UNCHANGED <<lastPass, prevOk, pass, prev, ioFailed, repeat>>
    ELSE /\ lastGeneratedHash' = pass.contentHash
         /\ EndPass(TRUE, w, ioFailed)

\* After the target's writeFileIfChanged returned, w writes into the pass:
\* the next target, or the assignment of lastGeneratedHash and the return.
Advance(t, w) ==
  IF t = "routes" \/ (t = "config" /\ pass.shouldWriteGuards)
    THEN /\ wpc' = IF t = "routes" THEN "config" ELSE "guards"
         /\ writes' = w
         /\ UNCHANGED <<lastGeneratedHash, lastPass, prevOk, pass, prev,
                        ioFailed, repeat>>
    ELSE /\ lastGeneratedHash' = pass.contentHash
         /\ EndPass(TRUE, w, ioFailed)

\* writeFiles is called: it awaits generateRoutesFile, that is the scan.
StartPass ==
  /\ wpc = "idle"
  /\ wpc' = "scanning"
  /\ lastPass' = NoWrittenPass
  /\ UNCHANGED <<disk, lastGeneratedHash, pass, fsVersion, now, prev, writes,
                 ioFailed, repeat, prevOk>>
  /\ WriteFrame

\* The scan rejects: writeFiles logs and rethrows.
ScanFails ==
  /\ wpc = "scanning"
  /\ EndPass(FALSE, 0, TRUE)
  /\ UNCHANGED <<disk, lastGeneratedHash, fsVersion, now>>
  /\ WriteFrame

\* The scan resolves: the texts are rendered, the guards file is looked for,
\* the hash is compared with lastGeneratedHash.
ScanDone ==
  /\ wpc = "scanning"
  /\ LET routesContent == generateRoutesTemplate(fsVersion, now)
         configContent == generateConfigTemplate
         should == shouldWriteGuards(disk)
         guardsContent == IF should THEN generateGuardsTemplate ELSE <<>>
         contentHash == calculateContentHash(routesContent, configContent,
                                             guardsContent)
     IN IF contentHash = lastGeneratedHash
          THEN /\ wpc' = "idle"
               /\ lastPass' = [ok |-> TRUE, repeat |-> prevOk = fsVersion,
                               writes |-> 0, ioFailed |-> FALSE]
               /\ prevOk' = fsVersion
               /\ UNCHANGED <<pass, prev, repeat>>
          ELSE /\ wpc' = "routes"
               /\ pass' = [routes |-> routesContent, config |-> configContent,
                           guards |-> guardsContent,
                           shouldWriteGuards |-> should,
                           contentHash |-> contentHash, version |-> fsVersion]
               /\ prev' = [t \in Targets |-> disk[t]]
               /\ repeat' = (prevOk = fsVersion)
               /\ UNCHANGED <<lastPass, prevOk>>
  /\ UNCHANGED <<disk, lastGeneratedHash, fsVersion, now, writes, ioFailed>>
  /\ WriteFrame

\* writeFileIfChanged finds the file with the same text and returns.
WriteSkipped(t) ==
  /\ wpc = t
  /\ disk[t] # Absent
  /\ disk[t] = ContentFor(t)
  /\ Advance(t, writes)
  /\ UNCHANGED <<disk, fsVersion, now>>
  /\ WriteFrame

\* writeFileIfChanged goes on to write: there is no file, its text differs,
\* or reading it threw.
MustWrite(t, readFailed) ==
  \/ disk[t] = Absent
  \/ disk[t] # ContentFor(t)
  \/ readFailed

\* fs.writeFileSync(tempPath, content) succeeds.
TempWritten(t, readFailed) ==
  /\ wpc = t
  /\ MustWrite(t, readFailed)
  /\ disk' = [disk EXCEPT ![tempPath(t)] = ContentFor(t)]
  /\ wpc' = tempPath(t)
  /\ writes' = writes + 1
  /\ ioFailed' = (ioFailed \/ (readFailed /\ disk[t] # Absent))
  /\ UNCHANGED <<lastGeneratedHash, pass, fsVersion, now, prev, repeat,
                 lastPass, prevOk>>
  /\ WriteFrame

\* fs.mkdirSync or fs.writeFileSync throws: nothing was written, or the
\* temporary file holds part of the text.
TempWriteFails(t, readFailed, left) ==
  /\ wpc = t
  /\ MustWrite(t, readFailed)
  /\ disk' = [disk EXCEPT ![tempPath(t)] = left]
  /\ EndPass(FALSE, writes, TRUE)
  /\ UNCHANGED <<lastGeneratedHash, fsVersion, now>>
  /\ WriteFrame

\* fs.renameSync(tempPath, filePath) succeeds.
Renamed(t) ==
  /\ wpc = tempPath(t)
  /\ disk' = [disk EXCEPT ![tempPath(t)] = Absent, ![t] = disk[tempPath(t)]]
  /\ Advance(t, writes + 1)
  /\ UNCHANGED <<fsVersion, now>>
  /\ WriteFrame

\* fs.renameSync throws.
RenameFails(t) ==
  /\ wpc = tempPath(t)
  /\ EndPass(FALSE, writes, TRUE)
  /\ UNCHANGED <<disk, lastGeneratedHash, fsVersion, now>>
  /\ WriteFrame

\* No file-system call of a pass is under way: the generator is idle or
\* awaits the scan.
BetweenCalls == wpc \in {"idle", "scanning"}

\* A page component is added, removed or edited.
FilesChange(v) ==
  /\ BetweenCalls
  /\ v # fsVersion
  /\ fsVersion' = v
  /\ UNCHANGED <<disk, lastGeneratedHash, wpc, pass, now, prev, writes,
                 ioFailed, repeat, lastPass, prevOk>>
  /\ WriteFrame

\* The clock reaches the next millisecond.
Tick ==
  /\ BetweenCalls
  /\ now < MaxClock
  /\ now' = now + 1
  /\ UNCHANGED <<disk, lastGeneratedHash, wpc, pass, fsVersion, prev, writes,
                 ioFailed, repeat, lastPass, prevOk>>
  /\ WriteFrame

\* The developer customizes the guards file, or deletes it.
GuardsEdited(g) ==
  /\ BetweenCalls
  /\ disk["guards"] # g
  /\ disk' = [disk EXCEPT !["guards"] = g]
  /\ prevOk' = -1
  /\ UNCHANGED <<lastGeneratedHash, wpc, pass, fsVersion, now, prev, writes,
                 ioFailed, repeat, lastPass>>
  /\ WriteFrame

\* Another process deletes the routes artifact while no pass is under way.
OutputDeleted(t) ==
  /\ wpc = "idle"
  /\ disk[t] # Absent
  /\ disk' = [disk EXCEPT ![t] = Absent]
  /\ prevOk' = -1
  /\ UNCHANGED <<lastGeneratedHash, wpc, pass, fsVersion, now, prev, writes,
                 ioFailed, repeat, lastPass>>
  /\ WriteFrame

NextWrite ==
  \/ StartPass
  \/ ScanFails
  \/ ScanDone
  \/ \E t \in Targets : WriteSkipped(t)
  \/ \E t \in Targets, readFailed \in BOOLEAN : TempWritten(t, readFailed)
  \/ \E t \in Targets, readFailed \in BOOLEAN :
       \E left \in {Partial, disk[tempPath(t)]} : TempWriteFails(t, readFailed, left)
  \/ \E t \in Targets : Renamed(t)
  \/ \E t \in Targets : RenameFails(t)
  \/ \E v \in 0..MaxVersion : FilesChange(v)
  \/ Tick
  \/ \E g \in {Absent, CustomGuards} : GuardsEdited(g)
  \/ OutputDeleted("routes")

SpecWrite == InitWrite /\ [][NextWrite]_vars

(***************************************************************************)
(* Claims about writeFiles (SpecWrite).                                    *)
(***************************************************************************)
\* A file-system call of a pass is under way or next.
InWritePhase == ~BetweenCalls

\* C5: after a pass that completed successfully, a second pass over the
\* same scanned file set and configuration, with the outputs left alone in
\* between and no file-system call failing, performs zero file-system
\* writes.
C5_SecondPassWritesNothing ==
  (lastPass.ok /\ lastPass.repeat /\ ~lastPass.ioFailed) => lastPass.writes = 0

C7_AtomicWrites ==
  /\ [](\A t \in Targets :
          /\ disk[t] # Partial
          /\ InWritePhase => disk[t] \in {prev[t], ContentFor(t)})
  /\ [][\A t \in Targets :
          (InWritePhase /\ disk'[t] # disk[t]) =>
             /\ disk[tempPath(t)] = ContentFor(t)
             /\ disk'[t] = ContentFor(t)
             /\ disk'[tempPath(t)] = Absent]_vars

\* A write of the temporary file failed half way: the temporary file holds
\* part of the text and the target still holds the previous one.
C7_Witness_FailedWriteLeavesTarget ==
  /\ wpc = "idle"
  /\ ~lastPass.ok
  /\ lastPass.ioFailed
  /\ disk[tempPath("routes")] = Partial
  /\ disk["routes"] \notin {Absent, Partial}

(***************************************************************************)
(* SpecMap: one call of RouteGenerator.createRouteFromFile, with the       *)
(* route path and the route name it derives, on a file and a               *)
(* configuration drawn from bounded sets.                                  *)
(***************************************************************************)
S_About == <<"A","b","o","u","t">>
S_UserProfile == <<"U","s","e","r","P","r","o","f","i","l","e">>
S_UserView == <<"U","s","e","r","V","i","e","w">>
S_UserPageView == <<"U","s","e","r","P","a","g","e","V","i","e","w">>
S_HTMLPage == <<"H","T","M","L","P","a","g","e">>
S_UserAdmin == <<"U","s","e","r","A","d","m","i","n">>
S_View == <<"V","i","e","w">>
S_Page == <<"P","a","g","e">>
S_iew == <<"i","e","w">>

MapStems == {S_About, S_UserProfile, S_UserView, S_UserPageView, S_HTMLPage, S_index}

MapDirs == {<<>>, <<S_UserAdmin>>, <<S_UserView, S_user>>}

\* What parseVueFileRouteMeta may return: nothing, a title (possibly the
\* empty string), flags.
MapFileMetas ==
  { NoMeta,
    [title |-> <<"T">>],
    [title |-> <<>>],
    [hidden |-> TRUE],
    [title |-> <<"T">>, requiresAuth |-> FALSE] }

\* options.meta, the global default metadata.
MapGlobalMetas ==
  { NoMeta,
    [title |-> <<"G">>],
    [requiresAuth |-> TRUE],
    [title |-> <<"G">>, requiresAuth |-> TRUE, keepAlive |-> TRUE] }

\* naming.filenameSuffixes: lists of non-empty suffixes.
MapSuffixLists ==
  { <<>>, <<S_View, S_Page>>, <<S_Page, S_View>>, <<S_iew, S_View>> }

MapFiles ==
  { [dir |-> d, stem |-> st, ext |-> ".vue", meta |-> m] :
      d \in MapDirs, st \in MapStems, m \in MapFileMetas }

MapConfigs ==
  { [defaultOptions EXCEPT !.meta = m,
                           !.naming = [kebabCase |-> k, filenameSuffixes |-> sfx]] :
      m \in MapGlobalMetas, k \in BOOLEAN, sfx \in MapSuffixLists }

InitMap ==
  /\ LoopIdle
  /\ GenIdle
  /\ WriteIdle
  /\ fnIn \in [file : MapFiles, options : MapConfigs]
  /\ fnOut = <<>>
  /\ fnDone = FALSE

\* createRouteFromFile(file): the descriptor, and the route path and route
\* name it computes on the way.
CreateRouteFromFile ==
  /\ ~fnDone
  /\ fnOut' = [route |-> createRouteFromFile(fnIn.file, fnIn.options),
               routePath |-> generateRoutePath(fnIn.file, fnIn.options),
               routeName |-> generateRouteName(fnIn.file, fnIn.options),
               pageTitle |-> generatePageTitle(fnIn.file, fnIn.options)]
  /\ fnDone' = TRUE
  /\ UNCHANGED fnIn
  /\ UNCHANGED <<loopVars, genVars, writeVars>>

NextMap == CreateRouteFromFile

SpecMap == InitMap /\ [][NextMap]_vars

(***************************************************************************)
(* Claims about the mapping of one file (SpecMap).                         *)
(***************************************************************************)
\* The segments of the file's path relative to the scan root, extension
\* removed.
MapSegments == FilterNonEmpty(Append(fnIn.file.dir, fnIn.file.stem))

\* The configured suffixes a segment ends with, by position.
MatchingSuffixes(seg) ==
  { i \in 1..Len(fnIn.options.naming.filenameSuffixes) :
      EndsWith(seg, fnIn.options.naming.filenameSuffixes[i]) }

\* The segment without the first configured suffix it ends with.
StrippedOnce(seg) ==
  IF MatchingSuffixes(seg) = {} THEN seg
  ELSE LET first == CHOOSE i \in MatchingSuffixes(seg) :
                      \A j \in MatchingSuffixes(seg) : i <= j
       IN SubSeq(seg, 1, Len(seg) - Len(fnIn.options.naming.filenameSuffixes[first]))

\* '-' before each internal upper-case letter, then lower case.
KebabOf(seg) ==
  Flatten([i \in 1..Len(seg) |->
             IF i > 1 /\ IsUpper(seg[i]) THEN <<"-", ToLower(seg[i])>>
             ELSE <<ToLower(seg[i])>>])

\* C11: in the descriptor of a file every key of the extracted per-file
\* metadata has the per-file value, every other key of the global default
\* metadata has the global value, and the title is the derived fallback
\* exactly when neither of the two supplies a title key.
C11_MetaPrecedence ==
  fnDone =>
    LET fileMeta == parseVueFileRouteMeta(fnIn.file)
        globalMeta == fnIn.options.meta
        meta == fnOut.route.meta
    IN /\ DOMAIN meta = DOMAIN fileMeta \cup DOMAIN globalMeta \cup {"title"}
       /\ \A k \in DOMAIN fileMeta : meta[k] = fileMeta[k]
       /\ \A k \in DOMAIN globalMeta \ DOMAIN fileMeta : meta[k] = globalMeta[k]
       /\ "title" \notin DOMAIN fileMeta \cup DOMAIN globalMeta =>
            meta.title = fnOut.pageTitle

\* C11 witness: a file whose metadata gives a title and requiresAuth, under
\* global defaults that give both too: the file's values are in the descriptor.
C11_Witness_FileOverridesGlobal ==
  /\ fnDone
  /\ fnIn.file.meta = [title |-> <<"T">>, requiresAuth |-> FALSE]
  /\ "requiresAuth" \in DOMAIN fnIn.options.meta
  /\ "title" \in DOMAIN fnIn.options.meta
  /\ fnOut.route.meta.title = <<"T">>
  /\ fnOut.route.meta.requiresAuth = FALSE
  /\ fnOut.route.meta.keepAlive = TRUE

C13_SuffixStripping ==
  fnDone =>
    LET segs == [i \in 1..Len(MapSegments) |->
                   IF fnIn.options.naming.kebabCase
                     THEN KebabOf(StrippedOnce(MapSegments[i]))
                     ELSE StrippedOnce(MapSegments[i])]
    IN fnOut.routePath = Join(segs, <<"/">>)

\* C13 witness: UserPageView.vue with the suffixes ["View", "Page"] and
\* kebab-case naming: View is removed, Page stays, and the result is
\* user-page.
C13_Witness_OneSuffixBeforeKebab ==
  /\ fnDone
  /\ fnIn.options.naming = [kebabCase |-> TRUE, filenameSuffixes |-> <<S_View, S_Page>>]
  /\ fnIn.file.dir = <<>>
  /\ fnIn.file.stem = S_UserPageView
  /\ fnOut.routePath = <<"u","s","e","r","-","p","a","g","e">>

(***************************************************************************)
(* SpecScan: one call of scanFiles on a directory tree and a               *)
(* configuration drawn from bounded sets.                                  *)
(***************************************************************************)
\* Files under the scan root: page components, a script, a .tsx component,
\* a style sheet, a component in an excluded directory.
ScanUniverse ==
  { [dir |-> <<>>,             stem |-> S_About, ext |-> ".vue", meta |-> NoMeta],
    [dir |-> <<S_user>>,       stem |-> S_index, ext |-> ".vue", meta |-> NoMeta],
    [dir |-> <<>>,             stem |-> S_user,  ext |-> ".ts",  meta |-> NoMeta],
    [dir |-> <<>>,             stem |-> S_Page,  ext |-> ".tsx", meta |-> NoMeta],
    [dir |-> <<>>,             stem |-> S_View,  ext |-> ".css", meta |-> NoMeta],
    [dir |-> <<S_components>>, stem |-> S_View,  ext |-> ".vue", meta |-> NoMeta] }

\* options.extensions: the default, the documented list, and lists with
\* another extension.
ScanExtensionSets ==
  { {".vue"}, {".vue", ".ts", ".js"}, {".ts"}, {".vue", ".tsx"} }

\* options.exclude, by the directory a pattern names.
ScanExcludeSets == { {S_components}, {} }

ScanConfigs ==
  { [defaultOptions EXCEPT !.extensions = x, !.exclude = ex] :
      x \in ScanExtensionSets, ex \in ScanExcludeSets }

InitScan ==
  /\ LoopIdle
  /\ GenIdle
  /\ WriteIdle
  /\ fnIn \in [files : SUBSET ScanUniverse, options : ScanConfigs]
  /\ fnOut = <<>>
  /\ fnDone = FALSE

\* scanFiles(options, root)
ScanFiles ==
  /\ ~fnDone
  /\ fnOut' = scanFiles(fnIn.files, fnIn.options)
  /\ fnDone' = TRUE
  /\ UNCHANGED fnIn
  /\ UNCHANGED <<loopVars, genVars, writeVars>>

NextScan == ScanFiles

SpecScan == InitScan /\ [][NextScan]_vars

\* C17: scanFiles returns exactly the files under the scan root whose
\* extension is in the configured set and which match no exclusion pattern.
C17_ScanExact ==
  fnDone =>
    fnOut = { f \in fnIn.files :
                /\ f.ext \in fnIn.options.extensions
                /\ \A i \in 1..Len(f.dir) : f.dir[i] \notin fnIn.options.exclude }

(***************************************************************************)
(* SpecRerun: two runs of generateRoutes over one file set and one         *)
(* configuration.  scanFiles returns the files in the order glob found     *)
(* them, which the code does not sort.                                     *)
(***************************************************************************)
S_profile == <<"p","r","o","f","i","l","e">>
S_userDashProfile == S_user \o <<"-">> \o S_profile

\* index.vue, user.vue, Dup.vue, dup.vue, user/profile.vue, user-profile.vue
\* and not-found.vue.
RerunUniverse ==
  { File(<<>>, S_index, NoMeta),
    File(<<>>, S_user, NoMeta),
    File(<<>>, S_Dup, NoMeta),
    File(<<>>, S_dup, [title |-> <<"D">>]),
    File(<<S_user>>, S_profile, NoMeta),
    File(<<>>, S_userDashProfile, NoMeta),
    File(<<>>, S_notFound, NoMeta) }

\* options.meta: nothing, or a title and a hidden flag for every route.
RerunGlobalMetas == { NoMeta, [title |-> <<"G">>, hidden |-> FALSE] }

RerunConfigs ==
  { [Options(kebab, <<"/">>, defaultOptions.notFound) EXCEPT !.meta = m] :
      kebab \in BOOLEAN, m \in RerunGlobalMetas }

InitRerun ==
  /\ LoopIdle
  /\ GenIdle
  /\ WriteIdle
  /\ fnIn \in [files : { S \in SUBSET RerunUniverse : Cardinality(S) <= MaxFiles },
               options : RerunConfigs]
  /\ fnOut = <<>>
  /\ fnDone = FALSE

\* One run of generateRoutes: the scan in the order glob returns the files,
\* and the descriptors.
RunOf(files) ==
  [scanned |-> files, routes |-> GenerateRoutesOf(files, fnIn.options).routes]

\* generateRoutes runs: the first run, then a second one.
GenerateRoutesRun ==
  /\ ~fnDone
  /\ \E files \in Orderings(scanFiles(fnIn.files, fnIn.options)) :
       fnOut' = Append(fnOut, RunOf(files))
  /\ fnDone' = (Len(fnOut) = 1)
  /\ UNCHANGED fnIn
  /\ UNCHANGED <<loopVars, genVars, writeVars>>

NextRerun == GenerateRoutesRun

SpecRerun == InitRerun /\ [][NextRerun]_vars

\* C18: two runs of generateRoutes over the same file set and the same
\* configuration process the files in the same order and return the same
\* descriptor sequence.
C18_Deterministic ==
  fnDone => /\ fnOut[1].scanned = fnOut[2].scanned
            /\ fnOut[1].routes = fnOut[2].routes

\* The names of a descriptor sequence are pairwise different.
UniqueNames(rs) ==
  \A i, j \in 1..Len(rs) : i # j => rs[i].name # rs[j].name

\* C19: within the descriptors one run of generateRoutes returns, no two
\* descriptors have the same route name.
C19_UniqueNames ==
  \A k \in 1..Len(fnOut) : UniqueNames(fnOut[k].routes)

(***************************************************************************)
(* SpecMerge: mergeOptions on one user options record.  The record holds   *)
(* the options validateOptions looks at; an option the user did not give   *)
(* is absent from it.  An extension is kept here as its characters.        *)
(***************************************************************************)
\* String.prototype.startsWith
StartsWith(s, prefix) ==
  /\ Len(prefix) <= Len(s)
  /\ SubSeq(s, 1, Len(prefix)) = prefix

\* str.trim() === "": the string has no character other than a blank.
TrimsToEmpty(s) == \A i \in 1..Len(s) : s[i] = " "

E_vue == <<".","v","u","e">>
E_ts == <<".","t","s">>
E_bare == <<"v","u","e">>
D_views == <<"s","r","c","/","v","i","e","w","s">>
D_pages == <<"s","r","c","/","p","a","g","e","s">>
\* "src/router/auto/routes.ts", "src/router/auto/config.ts" and
\* "src/router/guards.ts", the default output paths
O_routes == <<"s","r","c","/","r","o","u","t","e","r","/","a","u","t","o","/","r","o","u","t","e","s",".","t","s">>
O_config == <<"s","r","c","/","r","o","u","t","e","r","/","a","u","t","o","/","c","o","n","f","i","g",".","t","s">>
O_guards == <<"s","r","c","/","r","o","u","t","e","r","/","g","u","a","r","d","s",".","t","s">>
\* "src/views/routes.ts" and "src/pages/config.ts"
O_viewsRoutes == <<"s","r","c","/","v","i","e","w","s","/","r","o","u","t","e","s",".","t","s">>
O_pagesConfig == <<"s","r","c","/","p","a","g","e","s","/","c","o","n","f","i","g",".","t","s">>

\* The options of defaultOptions that validateOptions covers.
MergeDefaults ==
  [scanDir |-> D_views,
   extensions |-> <<E_vue>>,
   homeRoute |-> [path |-> <<"/">>, name |-> S_home, files |-> <<S_index, S_home>>],
   output |-> [routes |-> O_routes, config |-> O_config, guards |-> O_guards]]

W_scanDir == "scanDir cannot be empty"
W_noExtensions == "extensions cannot be empty array"
W_invalidExtensions == "Invalid extensions"
W_noHomeFiles == "homeRoute.files cannot be empty"
W_blankHomeFiles == "homeRoute.files must contain non-empty strings"

\* validateOptions: the warnings, in the order the checks are made.  An
\* absent option, the empty string and undefined are falsy; an empty array
\* is truthy.
validateOptions(options) ==
  LET has(k) == k \in DOMAIN options
      hasFiles == has("homeRoute") /\ "files" \in DOMAIN options.homeRoute
  IN (IF has("scanDir") /\ options.scanDir # <<>> /\ TrimsToEmpty(options.scanDir)
        THEN <<W_scanDir>> ELSE <<>>)
     \o (IF has("extensions") /\ Len(options.extensions) = 0
           THEN <<W_noExtensions>> ELSE <<>>)
     \o (IF has("extensions")
            /\ SelectSeq(options.extensions, LAMBDA ext : ~StartsWith(ext, <<".">>)) # <<>>
           THEN <<W_invalidExtensions>> ELSE <<>>)
     \o (IF ~hasFiles THEN <<>>
         ELSE IF Len(options.homeRoute.files) = 0 THEN <<W_noHomeFiles>>
         ELSE IF SelectSeq(options.homeRoute.files, TrimsToEmpty) # <<>>
           THEN <<W_blankHomeFiles>>
         ELSE <<>>)

\* mergeOptions: without options the defaults; otherwise the warnings are
\* logged and the user's options are spread over the defaults, homeRoute
\* and output field by field.
mergeOptions(given, options) ==
  IF ~given THEN MergeDefaults
  ELSE Spread(Spread(MergeDefaults, options),
              [homeRoute |-> Spread(MergeDefaults.homeRoute,
                               IF "homeRoute" \in DOMAIN options
                                 THEN options.homeRoute ELSE NoMeta),
               output |-> Spread(MergeDefaults.output,
                            IF "output" \in DOMAIN options
                              THEN options.output ELSE NoMeta)])

UserScanDirs == { D_pages, <<" ">>, <<>> }
UserExtensions == { <<>>, <<E_vue>>, <<E_bare>>, <<E_vue, <<"t","s">>>>, <<E_vue, E_ts>> }
UserHomeFiles == { <<>>, <<S_index>>, <<S_home>>, << <<>> >>, <<S_index, <<" ">>>> }

UserOutputs == { [routes |-> O_viewsRoutes], [config |-> O_pagesConfig] }

\* The user options records: every option given or left out.
UserOptions ==
  { Spread(Spread(Spread(a, b), c), d) :
      d \in {NoMeta} \cup { [output |-> o] : o \in UserOutputs },
      a \in {NoMeta} \cup { [scanDir |-> d] : d \in UserScanDirs },
      b \in {NoMeta} \cup { [extensions |-> x] : x \in UserExtensions },
      c \in {NoMeta} \cup { [homeRoute |-> NoMeta] }
              \cup { [homeRoute |-> [files |-> f]] : f \in UserHomeFiles } }

InitMerge ==
  /\ LoopIdle
  /\ GenIdle
  /\ WriteIdle
  /\ \/ fnIn = [given |-> FALSE, options |-> NoMeta]
     \/ \E o \in UserOptions : fnIn = [given |-> TRUE, options |-> o]
  /\ fnOut = <<>>
  /\ fnDone = FALSE

\* mergeOptions(options) is called; console.warn gets the warnings.
MergeOptions ==
  /\ ~fnDone
  /\ fnOut' = [options |-> mergeOptions(fnIn.given, fnIn.options),
               warned |-> IF fnIn.given THEN validateOptions(fnIn.options) ELSE <<>>]
  /\ fnDone' = TRUE
  /\ UNCHANGED fnIn
  /\ UNCHANGED <<loopVars, genVars, writeVars>>

NextMerge == MergeOptions

SpecMerge == InitMerge /\ [][NextMerge]_vars

\* The Configuration invariant: the extensions are non-empty and each begins
\* with ".", the home file stems are non-empty and none is blank.
ConfigurationInvariant(c) ==
  /\ c.extensions # <<>>
  /\ \A i \in 1..Len(c.extensions) : StartsWith(c.extensions[i], <<".">>)
  /\ c.homeRoute.files # <<>>
  /\ \A i \in 1..Len(c.homeRoute.files) : ~TrimsToEmpty(c.homeRoute.files[i])

\* C20: for every user options record, the configuration mergeOptions
\* returns satisfies the Configuration invariant.
C20_MergedConfigurationValid ==
  fnDone => ConfigurationInvariant(fnOut.options)

\* The rules of the configuration a user options record violates.
ViolatedRules(o) ==
  LET hasFiles == "homeRoute" \in DOMAIN o /\ "files" \in DOMAIN o.homeRoute
  IN (IF "scanDir" \in DOMAIN o /\ TrimsToEmpty(o.scanDir) THEN {W_scanDir} ELSE {})
     \cup (IF "extensions" \in DOMAIN o /\ o.extensions = <<>> THEN {W_noExtensions} ELSE {})
     \cup (IF "extensions" \in DOMAIN o
              /\ \E i \in 1..Len(o.extensions) : ~StartsWith(o.extensions[i], <<".">>)
             THEN {W_invalidExtensions} ELSE {})
     \cup (IF hasFiles /\ o.homeRoute.files = <<>> THEN {W_noHomeFiles} ELSE {})
     \cup (IF hasFiles /\ \E i \in 1..Len(o.homeRoute.files) :
                             TrimsToEmpty(o.homeRoute.files[i])
             THEN {W_blankHomeFiles} ELSE {})

\* C21: validateOptions returns a warning for each violated rule (empty scan
\* root, empty extension list, extension without a leading ".", empty or
\* blank-containing home file-stem list) and none for a valid record, and
\* mergeOptions returns a configuration in every case.
C21_ValidationComplete ==
  (fnDone /\ fnIn.given) =>
    /\ { fnOut.warned[i] : i \in 1..Len(fnOut.warned) } = ViolatedRules(fnIn.options)
    /\ DOMAIN fnOut.options = DOMAIN MergeDefaults

\* The path lies inside the directory: it is the directory followed by "/"
\* and more; every relative path lies inside the project root "".
InsideDirectory(p, dir) ==
  \/ dir = <<>>
  \/ StartsWith(p, dir \o <<"/">>)

\* C22: for every configuration mergeOptions accepts without a warning, the
\* routes, config and guards output paths are not inside the scanned
\* directory.
C22_OutputsOutsideScanDir ==
  (fnDone /\ fnOut.warned = <<>>) =>
    \A t \in DOMAIN fnOut.options.output :
      ~InsideDirectory(fnOut.options.output[t], fnOut.options.scanDir)

(***************************************************************************)
(* Further claims about writeFiles (SpecWrite).                            *)
(***************************************************************************)
\* C23: lastGeneratedHash is assigned only when the pass returns after all
\* of its artifact writes succeeded, each written target then holding the
\* text of the pass; while the writes of a pass are under way, and after a
\* pass that threw, lastGeneratedHash is what it was before the pass and
\* differs from the hash of the pass, so the next pass over the same content
\* is not skipped.
C23_HashAfterAllWrites ==
  /\ [](InWritePhase => lastGeneratedHash # pass.contentHash)
  /\ [][lastGeneratedHash' # lastGeneratedHash =>
          /\ InWritePhase
          /\ wpc' = "idle"
          /\ lastPass'.ok
          /\ lastGeneratedHash' = pass.contentHash
          /\ disk'["routes"] = pass.routes
          /\ disk'["config"] = pass.config
          /\ pass.shouldWriteGuards => disk'["guards"] = pass.guards]_vars
  /\ [][(InWritePhase /\ wpc' = "idle" /\ ~lastPass'.ok) =>
          /\ lastGeneratedHash' = lastGeneratedHash
          /\ lastGeneratedHash' # pass.contentHash]_vars

\* After a successful pass, a later pass wrote the routes of a changed file
\* set and then threw: lastGeneratedHash is still the hash of the earlier
\* pass.
C23_Witness_ThrowKeepsHash ==
  /\ wpc = "idle"
  /\ ~lastPass.ok
  /\ lastPass.writes > 0
  /\ lastGeneratedHash # <<>>
  /\ disk["routes"] \notin {Absent, lastGeneratedHash[1]}

(***************************************************************************)
(* Further claims about the mapping of one file (SpecMap).                 *)
(***************************************************************************)
\* C24: the configured suffix list leaves the directory segments of a
\* file's route path unchanged: each is the directory name, in kebab case
\* when that is configured, and only the trailing segment is stripped.
C24_SuffixOnStemOnly ==
  fnDone =>
    LET segs == Split(fnOut.routePath, "/")
        dir == fnIn.file.dir
    IN /\ Len(segs) = Len(dir) + 1
       /\ \A i \in 1..Len(dir) :
            segs[i] = IF fnIn.options.naming.kebabCase THEN KebabOf(dir[i]) ELSE dir[i]

\* "404 Not Found"
T_notFound == <<"4","0","4"," ","N","o","t"," ","F","o","u","n","d">>

\* C25: the synthetic not-found descriptor, the last one of a run with the
\* rule enabled, carries hidden = TRUE and the title "404 Not Found" for
\* every value of the global default metadata.
C25_NotFoundMetaFixed ==
  \A k \in 1..Len(fnOut) :
    fnIn.options.notFound.enabled =>
      LET last == fnOut[k].routes[Len(fnOut[k].routes)]
      IN /\ last.path = fnIn.options.notFound.path
         /\ last.meta.hidden = TRUE
         /\ last.meta.title = T_notFound

(***************************************************************************)
(* Further claims about the reconciliation loop (Spec).                    *)
(***************************************************************************)
\* The debounce window of an event kind.
DelayOf(kind) == IF kind = "change" THEN ChangeDelay ELSE DefaultDelay

\* C26: at most one debounce timer is live at any time, and after a
\* relevant event of any kind the one live timer is the timer of that
\* event, with the window of its kind: the timer armed before it was
\* cancelled.
C26_OneDebounceTimer ==
  /\ [](Len(timers) <= 1)
  /\ [][(events' # events /\ lastEvent'.armed) =>
          timers' = <<DelayOf(lastEvent'.kind)>>]_vars

\* A change event cancelled the live timer of an earlier event and armed its
\* own 300 ms timer.
C26_Witness_TimerReplaced ==
  /\ lastEvent.armed
  /\ lastEvent.cancelled
  /\ lastEvent.kind = "change"
  /\ timers = <<ChangeDelay>>

\* The loop with its scheduling: a live timer eventually elapses (Node runs
\* every armed timer) and a writeFiles call in flight eventually settles.
SpecLive ==
  /\ Spec
  /\ WF_vars(DebounceTimerFires)
  /\ WF_vars(FollowupTimerFires)
  /\ WF_vars(\E i \in 1..Len(calls), ok \in BOOLEAN : PassCompletes(i, ok))

\* C27: no relevant event is lost.  With timers eventually elapsing and
\* passes eventually completing, every relevant event is eventually
\* followed by a pass that begins after it, with no further event needed.
C27_NoEventLost == unserved ~> ~unserved

\* C28: whenever no pass is running and the completion of the last pass has
\* been handled, pendingRegeneration is FALSE: no pass starts with a rerun
\* flag left over from an earlier pass.
C28_NoStaleRerunFlag ==
  (~isGenerating /\ calls = <<>>) => ~pendingRegeneration

\* The routes text the pass under way rendered.
RenderedRoutes ==
  IF wpc = "scanning" THEN generateRoutesTemplate(fsVersion, now) ELSE pass.routes

\* C29: when a writeFiles pass returns without error, also when it returns
\* early because the hash equals lastGeneratedHash, the routes and config
\* files on disk hold the texts that pass rendered, also when another
\* process deleted them since the previous pass.
C29_ReturnedPassOnDisk ==
  [][(wpc # "idle" /\ wpc' = "idle" /\ lastPass'.ok) =>
       /\ disk'["routes"] = RenderedRoutes
       /\ disk'["config"] = generateConfigTemplate]_vars

\* C30: a home file in a subdirectory d gets the path and the name of d as
\* they appear in the routes of the other files of d: its path is "/" and the
\* directory segments of a sibling's route path, its name those segments
\* joined by "-", under every naming configuration.
C30_SubdirHomeConsistent ==
  (fnDone /\ fnIn.file.dir # <<>> /\ isHomePageFile(fnIn.file, fnIn.options)) =>
    LET sibling == [fnIn.file EXCEPT !.stem = S_About]
        segs == Split(generateRoutePath(sibling, fnIn.options), "/")
        prefix == SubSeq(segs, 1, Len(segs) - 1)
    IN /\ fnOut.route.path = <<"/">> \o Join(prefix, <<"/">>)
       /\ fnOut.route.name = Join(prefix, <<"-">>)

=============================================================================
